---- MODULE Spec2Model ----
(***************************************************************************)
(* Model of the multi-vendor data router (dataflows/interface.py), the     *)
(* process-wide configuration store (tradingagents/dataflows/config.py),   *)
(* the technical analyst that drives the router (tech_analyst.py) and the  *)
(* indicator engine (agents/utils/indicators.py).                          *)
(*                                                                         *)
(* Representation choices                                                  *)
(*  - A Python str holding a vendor priority is a sequence of atoms: an    *)
(*    identifier ("finhub"), a comma "," or a blank " ".  split/strip work *)
(*    on these atoms exactly as str.split(",") and str.strip() work on     *)
(*    characters.                                                          *)
(*  - A Python dict nested in the configuration is an object on a heap and *)
(*    the configuration holds a reference to it, because dict.copy() and   *)
(*    dict.update() copy references, not objects.                          *)
(*  - Every top-level configuration value is a record [ref, val]: ref > 0  *)
(*    is a reference to heap[ref], ref = 0 is a scalar printed as val.     *)
(***************************************************************************)
EXTENDS Integers, Sequences, FiniteSets, TLC

----------------------------------------------------------------------------
(* Bounds of the exploration *)

MaxSets == 2          \* set_config calls in a behaviour
MaxMutations == 1     \* in-place mutations by a holder of get_config()'s result
MaxCalls == 2         \* route_to_vendor calls / analyses started in a behaviour

----------------------------------------------------------------------------
(* Values *)

Scalar(s) == [ref |-> 0, val |-> s]
Ref(i) == [ref |-> i, val |-> ""]

EmptyDict == [x \in {} |-> <<>>]

\* dict literal with one / two / three entries
Dict1(k1, v1) == [x \in {k1} |-> v1]
Dict3(k1, v1, k2, v2, k3, v3) ==
    [x \in {k1, k2, k3} |-> IF x = k1 THEN v1 ELSE IF x = k2 THEN v2 ELSE v3]

\* d.update(o) / {**d, **o}: entries of o win, the others are kept
Updated(d, o) ==
    [x \in (DOMAIN d) \cup (DOMAIN o) |-> IF x \in DOMAIN o THEN o[x] ELSE d[x]]

\* d[k] = v on a dict object
Stored(d, k, v) == Updated(d, Dict1(k, v))

NoError == [vendor |-> "", at |-> 0]
Err(v, i) == [vendor |-> v, at |-> i]

NullSeq == [null |-> TRUE, seq |-> <<>>]
ListOf(s) == [null |-> FALSE, seq |-> s]

NullNum == [null |-> TRUE, v |-> 0]
Num(n) == [null |-> FALSE, v |-> n]

\* what a vendor implementation returns: the normalized quote / candle series,
\* reduced to the fields the callers read
NoResult == [source |-> "", current_price |-> NullNum, c |-> NullSeq]

----------------------------------------------------------------------------
(* default_config.py *)

DefaultKey == "d53sdf1r01qkplh15q4gd53sdf1r01qkplh15q50"

\* the dict literal bound to "data_vendors" in DEFAULT_CONFIG
DefaultDataVendors ==
    Dict3("core_stock_apis", <<"finhub", ",", "yfinance", ",", "alpha_vantage">>,
          "news_data", <<"alpha_vantage", ",", "openai">>,
          "technical_indicators", <<"yfinance", ",", "alpha_vantage">>)

\* DEFAULT_CONFIG; heap object 1 is its data_vendors dict, 2 its tool_vendors dict
DEFAULT_CONFIG ==
    [k \in {"llm_model", "deepseek_api_key", "deepseek_base_url", "llm_temperature",
            "data_vendors", "tool_vendors", "FINHUB_API_KEY",
            "ALPHA_VANTAGE_API_KEY", "timeout", "cache_ttl"} |->
        CASE k = "llm_model" -> Scalar("deepseek-chat")
          [] k = "deepseek_api_key" -> Scalar("sk-4010fb2096b74025945e2b6e49a979e9")
          [] k = "deepseek_base_url" -> Scalar("https://api.deepseek.com/v1")
          [] k = "llm_temperature" -> Scalar("0.1")
          [] k = "data_vendors" -> Ref(1)
          [] k = "tool_vendors" -> Ref(2)
          [] k = "FINHUB_API_KEY" -> Scalar(DefaultKey)
          [] k = "ALPHA_VANTAGE_API_KEY" -> Scalar("")
          [] k = "timeout" -> Scalar("10")
          [] k = "cache_ttl" -> Scalar("300")]

DefaultHeap == <<DefaultDataVendors, EmptyDict>>

----------------------------------------------------------------------------
(* State *)

VARIABLES
    _CONFIG,          \* config.py: the module global, key -> [ref, val]
    heap,             \* the dict objects the configuration values refer to
    FINHUB_API_KEY,   \* finhub.py: module global read once at import
    held,             \* a caller's variable bound to a get_config() result
    overlays,         \* history: the custom_config of every set_config so far
    nMut,             \* history: number of in-place mutations by callers
    nCalls,           \* history: number of calls started
    pc,               \* route_to_vendor: "idle", "loop", "returned", "raised"
    method_name,      \* route_to_vendor: its first argument
    vendor_priority,  \* route_to_vendor: local, list of tokens
    idx,              \* route_to_vendor: position of the for loop in vendor_priority
    last_exception,   \* route_to_vendor: local
    outcome,          \* route_to_vendor: what the call returned or raised
    log,              \* history: vendor invocations of the current call, in order
    configReads,      \* history: get_config() calls made by the current call
    readView,         \* history: the configuration as read by the current call
    ta_pc,            \* get_technical_analysis: "idle", "stock", "ohlc", "done", "raised"
    ta_stock,         \* get_technical_analysis: local stock_data
    ta_out,           \* get_technical_analysis: what the call returned or raised
    ta_finhubFailed,  \* history: a Finhub implementation raised during the current analysis
    stock_in,         \* calculate_technical_indicators: argument stock_data
    ohlc_in,          \* calculate_technical_indicators: argument ohlc_data
    ind,              \* calculate_technical_indicators: its result
    ohlc_req,         \* get_ohlc_data: its arguments and the candles the service holds
    ohlc_resp,        \* get_ohlc_data: what one vendor implementation asked and returned
    fund_in,          \* calculate_fundamental_indicators: its arguments
    fund              \* calculate_fundamental_indicators: its result

cfgVars == <<_CONFIG, heap, FINHUB_API_KEY, held, overlays, nMut>>
routeVars == <<pc, method_name, vendor_priority, idx, last_exception, outcome, log,
               configReads, readView>>
taVars == <<ta_pc, ta_stock, ta_out, ta_finhubFailed>>
indVars == <<stock_in, ohlc_in, ind>>
vendorVars == <<ohlc_req, ohlc_resp>>
fundVars == <<fund_in, fund>>
vars == <<cfgVars, routeVars, nCalls, taVars, indVars, vendorVars, fundVars>>

----------------------------------------------------------------------------
(* str.split(",") and str.strip() on atom sequences *)

\* position of the first sep in s, 0 if there is none (str.find)
RECURSIVE FindFrom(_, _, _)
FindFrom(s, sep, i) ==
    IF i > Len(s) THEN 0
    ELSE IF s[i] = sep THEN i
    ELSE FindFrom(s, sep, i + 1)

\* s.split(sep): always at least one piece, empty pieces are kept
RECURSIVE split(_, _)
split(s, sep) ==
    LET i == FindFrom(s, sep, 1)
    IN  IF i = 0 THEN <<s>>
        ELSE <<SubSeq(s, 1, i - 1)>> \o split(SubSeq(s, i + 1, Len(s)), sep)

RECURSIVE lstrip(_)
lstrip(s) == IF s # <<>> /\ Head(s) = " " THEN lstrip(Tail(s)) ELSE s

RECURSIVE rstrip(_)
rstrip(s) ==
    IF s # <<>> /\ s[Len(s)] = " " THEN rstrip(SubSeq(s, 1, Len(s) - 1)) ELSE s

\* v.strip()
strip(s) == rstrip(lstrip(s))

\* [v.strip() for v in text.split(",")]
ParsePriority(text) ==
    LET parts == split(text, ",")
    IN  [i \in 1..Len(parts) |-> strip(parts[i])]

\* the str a token denotes: one identifier atom is that identifier, the empty
\* token is "", anything else (inner blanks, several atoms) is no vendor's name
Name(tok) ==
    IF tok = <<>> THEN ""
    ELSE IF Len(tok) = 1 /\ tok[1] \notin {" ", ","} THEN tok[1]
    ELSE "?"

----------------------------------------------------------------------------
(* dataflows/interface.py: tables *)

\* VENDOR_METHODS: method -> the vendor names that have an implementation
VENDOR_METHODS ==
    [m \in {"get_stock_data", "get_ohlc_data"} |->
        IF m = "get_stock_data" THEN {"finhub"} ELSE {"finhub", "yfinance"}]

\* TOOL_CATEGORIES: category -> methods
TOOL_CATEGORIES ==
    [c \in {"core_stock_apis", "technical_indicators"} |->
        IF c = "core_stock_apis" THEN {"get_stock_data"} ELSE {"get_ohlc_data"}]

\* the capability surface callers use, and one name nobody defines
CapabilitySurface ==
    {"get_stock_data", "get_ohlc_data", "get_market_data", "get_financial_data"}
MethodNames == CapabilitySurface \cup {"get_news"}

\* if method_name not in VENDOR_METHODS  (negated)
IsSupported_AcceptAll(m) == TRUE
IsSupported(m) == m \in DOMAIN VENDOR_METHODS

\* get_category_for_method: [ok, category]; ok = FALSE is its ValueError
get_category_for_method(m) ==
    IF \E c \in DOMAIN TOOL_CATEGORIES : m \in TOOL_CATEGORIES[c]
    THEN [ok |-> TRUE,
          category |-> CHOOSE c \in DOMAIN TOOL_CATEGORIES : m \in TOOL_CATEGORIES[c]]
    ELSE [ok |-> FALSE, category |-> ""]

DefaultPriority == <<<<"finhub">>, <<"yfinance">>, <<"alpha_vantage">>>>

----------------------------------------------------------------------------
(* tradingagents/dataflows/config.py *)

\* get_config(): _CONFIG.copy(), a new top-level dict holding the same values
\* (for a nested dict: the same reference)
get_config == [k \in DOMAIN _CONFIG |-> _CONFIG[k]]

\* config.get(key, {}) for a key whose value is a nested dict
NestedOf(config, h, key) ==
    IF key \in DOMAIN config /\ config[key].ref # 0 THEN h[config[key].ref] ELSE EmptyDict

\* what a reader sees through the configuration: every key with its value,
\* nested dicts by content
DeepView(config, h) ==
    [k \in DOMAIN config |->
        [top |-> config[k].val, nested |-> NestedOf(config, h, k)]]

----------------------------------------------------------------------------
(* dataflows/interface.py: get_vendor_priority *)

\* the override test of step 1: method_name in tool_vendors
HasOverride_Never(tool_vendors, m) == FALSE
HasOverride(tool_vendors, m) == m \in DOMAIN tool_vendors

\* [ok, list]; ok = FALSE is the ValueError of get_category_for_method
get_vendor_priority(m, config, h) ==
    LET tool_vendors == NestedOf(config, h, "tool_vendors")
        data_vendors == NestedOf(config, h, "data_vendors")
        cat == get_category_for_method(m)
    IN  IF HasOverride(tool_vendors, m)
        THEN [ok |-> TRUE, list |-> ParsePriority(tool_vendors[m])]
        ELSE IF ~cat.ok THEN [ok |-> FALSE, list |-> <<>>]
        ELSE IF cat.category \in DOMAIN data_vendors
        THEN [ok |-> TRUE, list |-> ParsePriority(data_vendors[cat.category])]
        ELSE [ok |-> TRUE, list |-> DefaultPriority]

----------------------------------------------------------------------------
(* The custom_config arguments callers pass to set_config.  An overlay is    *)
(* [scalars, dicts]: its scalar entries, and its entries whose value is a    *)
(* dict literal (a new object each time the literal is evaluated).           *)

InvalidKey == "invalid_key_123456"

\* priority strings a configuration entry is given
PriorityStrings ==
    { <<"finhub", ",", "yfinance">>,
      <<" ", "yfinance", " ", ",", " ", "finhub", " ">>,
      <<"finhub", ",", "finhub">>,
      <<"fin", " ", "hub", ",", "yfinance", ",", "finhub">>,
      <<>> }

TestDataVendors == Dict1("core_stock_apis", <<"finhub", ",", "yfinance">>)

\* test_finhub.py CUSTOM_CONFIG
CUSTOM_CONFIG ==
    [scalars |-> Dict1("FINHUB_API_KEY", Scalar(DefaultKey)),
     dicts |-> Dict1("data_vendors", TestDataVendors)]

\* test_tech.py BASE_CONFIG with FINHUB_API_KEY / DEEPSEEK_API_KEY unset in the environment
BASE_CONFIG ==
    [scalars |-> [k \in {"FINHUB_API_KEY", "deepseek_api_key", "llm_model", "llm_temperature"} |->
                    CASE k = "FINHUB_API_KEY" -> Scalar("")
                      [] k = "deepseek_api_key" -> Scalar("")
                      [] k = "llm_model" -> Scalar("deepseek-chat")
                      [] k = "llm_temperature" -> Scalar("0.1")],
     dicts |-> Dict1("data_vendors", TestDataVendors)]

\* test_tech.py test_finhub_fail_fallback_yfinance: temp_config
TEMP_CONFIG ==
    [scalars |-> Stored(BASE_CONFIG.scalars, "FINHUB_API_KEY", Scalar(InvalidKey)),
     dicts |-> BASE_CONFIG.dicts]

\* an overlay that touches only scalars, one of them a key the defaults lack
ScalarOverlay ==
    [scalars |-> [k \in {"timeout", "proxy"} |->
                    IF k = "timeout" THEN Scalar("30") ELSE Scalar("http://proxy")],
     dicts |-> EmptyDict]

ToolOverride(m, text) ==
    [scalars |-> EmptyDict, dicts |-> Dict1("tool_vendors", Dict1(m, text))]

CategoryOverlay(c, text) ==
    [scalars |-> EmptyDict, dicts |-> Dict1("data_vendors", Dict1(c, text))]

Overlays ==
    {CUSTOM_CONFIG, BASE_CONFIG, TEMP_CONFIG, ScalarOverlay}
    \cup {ToolOverride("get_ohlc_data", t) : t \in PriorityStrings}
    \cup {CategoryOverlay("technical_indicators", <<"finhub", ",", "yfinance">>)}

\* the nested keys of an overlay in the order their literals are evaluated
RECURSIVE SetToSeq(_)
SetToSeq(S) ==
    IF S = {} THEN <<>>
    ELSE LET x == CHOOSE y \in S : TRUE IN <<x>> \o SetToSeq(S \ {x})

\* the top-level dict of an overlay whose dict literals were allocated at
\* heap positions base+1, base+2, ...
TopLevel(o, base) ==
    LET ks == SetToSeq(DOMAIN o.dicts)
    IN  [k \in (DOMAIN o.scalars) \cup (DOMAIN o.dicts) |->
            IF k \in DOMAIN o.dicts
            THEN Ref(base + (CHOOSE i \in 1..Len(ks) : ks[i] = k))
            ELSE o.scalars[k]]

Allocated(o) ==
    LET ks == SetToSeq(DOMAIN o.dicts)
    IN  [i \in 1..Len(ks) |-> o.dicts[ks[i]]]

----------------------------------------------------------------------------
(* tradingagents/dataflows/config.py: set_config *)

\* _CONFIG.update(custom_config)
update_KeepNested(config, custom_config) ==
    Updated(config, [k \in {x \in DOMAIN custom_config :
                                ~(x \in DOMAIN config /\ config[x].ref # 0)} |->
                        custom_config[k]])
update_Replace(config, custom_config) == custom_config
update(config, custom_config) == Updated(config, custom_config)

\* set_config(custom_config); the print that follows reads _CONFIG['data_vendors']
\* and raises KeyError when the key is absent
set_config(custom_config) ==
    /\ _CONFIG' = update(_CONFIG, custom_config)
    /\ overlays' = Append(overlays, custom_config)

\* a caller builds a dict from literals and passes it
SetConfigLiteral ==
    /\ Len(overlays) < MaxSets
    /\ \E o \in Overlays :
        /\ heap' = heap \o Allocated(o)
        /\ set_config(TopLevel(o, Len(heap)))
    /\ UNCHANGED <<FINHUB_API_KEY, held, nMut, routeVars, nCalls, taVars, indVars, vendorVars, fundVars>>

\* a caller passes the dict it got from get_config (possibly after changing it)
SetConfigHeld ==
    /\ Len(overlays) < MaxSets
    /\ DOMAIN held # {}
    /\ set_config(held)
    /\ UNCHANGED <<heap, FINHUB_API_KEY, held, nMut, routeVars, nCalls, taVars, indVars, vendorVars, fundVars>>

\* config = get_config()
GetConfig ==
    /\ held # get_config
    /\ held' = get_config
    /\ UNCHANGED <<_CONFIG, heap, FINHUB_API_KEY, overlays, nMut, routeVars, nCalls, taVars, indVars, vendorVars, fundVars>>

\* config[key] = value on the returned dict
CallerSetTop ==
    /\ nMut < MaxMutations
    /\ DOMAIN held # {}
    /\ \E k \in {"timeout", "FINHUB_API_KEY"} :
        held' = Stored(held, k, Scalar("changed"))
    /\ nMut' = nMut + 1
    /\ UNCHANGED <<_CONFIG, heap, FINHUB_API_KEY, overlays, routeVars, nCalls, taVars, indVars, vendorVars, fundVars>>

\* config[key][entry] = text on a nested dict of the returned dict
CallerSetNested ==
    /\ nMut < MaxMutations
    /\ \E k \in {"data_vendors", "tool_vendors"} :
        /\ k \in DOMAIN held
        /\ held[k].ref # 0
        /\ \E text \in PriorityStrings :
            LET entry == IF k = "data_vendors" THEN "technical_indicators" ELSE "get_ohlc_data"
                r == held[k].ref
            IN  heap' = [heap EXCEPT ![r] = Stored(heap[r], entry, text)]
    /\ nMut' = nMut + 1
    /\ UNCHANGED <<_CONFIG, FINHUB_API_KEY, held, overlays, routeVars, nCalls, taVars, indVars, vendorVars, fundVars>>

----------------------------------------------------------------------------
(* The vendor implementations, as the router sees them: a call returns a     *)
(* normalized result or raises.                                              *)

\* keys the Finnhub service accepts; any other key is answered with HTTP 401
ValidKeys == {DefaultKey}

SampleCloses == <<3, 2, 1>>

\* the results implementation (m, v) can return
VendorResults(m, v) ==
    IF m = "get_stock_data" /\ v = "finhub"
    THEN {[source |-> "finhub", current_price |-> p, c |-> NullSeq] : p \in {NullNum, Num(128)}}
    ELSE IF m = "get_ohlc_data" /\ v = "finhub"
    THEN {[source |-> "finhub", current_price |-> NullNum, c |-> cl] :
            cl \in {NullSeq, ListOf(SampleCloses)}}
    ELSE IF m = "get_ohlc_data" /\ v = "yfinance"
    THEN {[source |-> "yfinance", current_price |-> NullNum, c |-> ListOf(SampleCloses)]}
    ELSE {}

\* the implementation can return at all: Finnhub requests carry the module's key
CanReturn(v) == v = "finhub" => FINHUB_API_KEY \in ValidKeys

----------------------------------------------------------------------------
(* dataflows/interface.py: route_to_vendor *)

NoOutcome == [kind |-> "none", result |-> NoResult, cause |-> NoError]
Returned(r) == [kind |-> "return", result |-> r, cause |-> NoError]
Raised(k, e) == [kind |-> k, result |-> NoResult, cause |-> e]

\* except Exception as e: last_exception = e
OnException_KeepFirst(last, e) == IF last = NoError THEN e ELSE last
OnException(last, e) == e

\* the position the for loop examines after a vendor at position i raised
AfterRaise_GiveUp(i, n) == n + 1
AfterRaise(i, n) == i + 1

\* the position the for loop examines first
FirstPosition_Last(n) == n
FirstPosition(n) == 1

\* line 87: the list the for loop iterates is the one bound at line 82
LoopList_Reread(current, m, config, h) == get_vendor_priority(m, config, h).list
LoopList(current, m, config, h) == current

\* line 82: vendor_priority = get_vendor_priority(method_name), on every call
ResolvePriority_Cached(m, config, h) ==
    IF vendor_priority # <<>> /\ method_name = m
    THEN [ok |-> TRUE, list |-> vendor_priority]
    ELSE get_vendor_priority(m, config, h)
ResolvePriority(m, config, h) == get_vendor_priority(m, config, h)

\* the loop is over at position i of n: raise RuntimeError(...) from last_exception
LoopEnd_ReturnNone(i, n, last) ==
    IF i > n
    THEN IF last = NoError
         THEN /\ pc' = "returned"
              /\ outcome' = Returned(NoResult)
         ELSE /\ pc' = "raised"
              /\ outcome' = Raised("RuntimeError", last)
    ELSE /\ pc' = "loop"
         /\ outcome' = NoOutcome
LoopEnd(i, n, last) ==
    IF i > n
    THEN /\ pc' = "raised"
         /\ outcome' = Raised("RuntimeError", last)
    ELSE /\ pc' = "loop"
         /\ outcome' = NoOutcome

\* lines 75-84 and the loop's start: the call of route_to_vendor(m, ...)
Enter(m) ==
    /\ method_name' = m
    /\ log' = <<>>
    /\ IF ~IsSupported(m)
       THEN /\ pc' = "raised"
            /\ outcome' = Raised("ValueError", NoError)
            /\ configReads' = 0
            /\ readView' = EmptyDict
            /\ vendor_priority' = <<>>
            /\ idx' = 0
            /\ last_exception' = NoError
       ELSE LET config == get_config
                p == ResolvePriority(m, config, heap)
            IN  /\ configReads' = 1
                /\ readView' = DeepView(config, heap)
                /\ IF ~p.ok
                   THEN /\ pc' = "raised"
                        /\ outcome' = Raised("ValueError", NoError)
                        /\ vendor_priority' = <<>>
                        /\ idx' = 0
                        /\ last_exception' = NoError
                   ELSE IF m \notin DOMAIN VENDOR_METHODS
                   THEN /\ pc' = "raised"
                        /\ outcome' = Raised("KeyError", NoError)
                        /\ vendor_priority' = p.list
                        /\ idx' = 0
                        /\ last_exception' = NoError
                   ELSE /\ vendor_priority' = p.list
                        /\ idx' = FirstPosition(Len(p.list))
                        /\ last_exception' = NoError
                        /\ LoopEnd(FirstPosition(Len(p.list)), Len(p.list), NoError)

\* a caller other than the analyst calls route_to_vendor
RouteCall ==
    /\ pc # "loop"
    /\ ta_pc \notin {"stock", "ohlc"}
    /\ nCalls < MaxCalls
    /\ nCalls' = nCalls + 1
    /\ \E m \in MethodNames : Enter(m)
    /\ UNCHANGED <<cfgVars, taVars, indVars, vendorVars, fundVars>>

\* one pass of the for loop over a vendor without an implementation: continue
RouteSkip ==
    /\ pc = "loop"
    /\ Name(vendor_priority[idx]) \notin VENDOR_METHODS[method_name]
    /\ idx' = idx + 1
    /\ LoopEnd(idx + 1, Len(vendor_priority), last_exception)
    /\ vendor_priority' = LoopList(vendor_priority, method_name, get_config, heap)
    /\ UNCHANGED <<method_name, last_exception, log, configReads, readView>>
    /\ UNCHANGED <<cfgVars, nCalls, taVars, indVars, vendorVars, fundVars>>

\* one pass of the for loop: the implementation returns, return result
RouteInvokeReturn ==
    /\ pc = "loop"
    /\ LET vendor == Name(vendor_priority[idx])
       IN  /\ vendor \in VENDOR_METHODS[method_name]
           /\ CanReturn(vendor)
           /\ \E result \in VendorResults(method_name, vendor) :
                /\ log' = Append(log, [vendor |-> vendor, ok |-> TRUE,
                                       result |-> result, err |-> NoError])
                /\ outcome' = Returned(result)
           /\ pc' = "returned"
    /\ UNCHANGED <<method_name, vendor_priority, idx, last_exception, configReads, readView>>
    /\ UNCHANGED <<cfgVars, nCalls, taVars, indVars, vendorVars, fundVars>>

\* one pass of the for loop: the implementation raises, try the next one
RouteInvokeRaise ==
    /\ pc = "loop"
    /\ LET vendor == Name(vendor_priority[idx])
           e == Err(vendor, idx)
           n == Len(vendor_priority)
       IN  /\ vendor \in VENDOR_METHODS[method_name]
           /\ log' = Append(log, [vendor |-> vendor, ok |-> FALSE,
                                  result |-> NoResult, err |-> e])
           /\ last_exception' = OnException(last_exception, e)
           /\ idx' = AfterRaise(idx, n)
           /\ LoopEnd(AfterRaise(idx, n), n, OnException(last_exception, e))
    /\ vendor_priority' = LoopList(vendor_priority, method_name, get_config, heap)
    /\ UNCHANGED <<method_name, configReads, readView>>
    /\ UNCHANGED <<cfgVars, nCalls, taVars, indVars, vendorVars, fundVars>>

----------------------------------------------------------------------------
(* agents/utils/indicators.py.  A float is [k, n, d]: k = "nan", k = "inf",  *)
(* or k = "num" for the rational n / d (d > 0).  Prices are integers, and a  *)
(* quotient is kept exact instead of rounded to a double.                    *)

RsiWindow == 14

NaN == [k |-> "nan", n |-> 0, d |-> 1]
Inf == [k |-> "inf", n |-> 0, d |-> 1]
Rat(n, d) == [k |-> "num", n |-> n, d |-> d]

\* x > c and x < c for a float x and an integer c (comparisons with nan are False)
Greater(x, c) == x.k = "inf" \/ (x.k = "num" /\ x.n > c * x.d)
Less(x, c) == x.k = "num" /\ x.n < c * x.d

\* delta = prices_series.diff(): undefined at the first position
HasDelta(prices, i) == i > 1
DeltaAt(prices, i) == prices[i] - prices[i - 1]

\* gain = delta.where(delta > 0, 0)
GainAt(prices, i) ==
    IF HasDelta(prices, i) /\ DeltaAt(prices, i) > 0 THEN DeltaAt(prices, i) ELSE 0

\* loss = -delta.where(delta < 0, 0)
LossAt(prices, i) ==
    IF HasDelta(prices, i) /\ DeltaAt(prices, i) < 0 THEN -DeltaAt(prices, i) ELSE 0

\* the positions rolling(window=w, min_periods=1) averages at position i
RollingWindow(i, w) == (IF i - w + 1 > 1 THEN i - w + 1 ELSE 1)..i

\* the sum of gain over a set of positions (numerator of the rolling mean)
RECURSIVE SumGain(_, _)
SumGain(prices, S) ==
    IF S = {} THEN 0
    ELSE LET j == CHOOSE x \in S : TRUE
         IN  GainAt(prices, j) + SumGain(prices, S \ {j})

\* the sum of loss over a set of positions
RECURSIVE SumLoss(_, _)
SumLoss(prices, S) ==
    IF S = {} THEN 0
    ELSE LET j == CHOOSE x \in S : TRUE
         IN  LossAt(prices, j) + SumLoss(prices, S \ {j})

\* rs = avg_gain / avg_loss; both means are over the same number of samples,
\* so the quotient of the means is the quotient of the sums
RelativeStrength(sumGain, sumLoss) ==
    IF sumLoss = 0
    THEN IF sumGain = 0 THEN NaN ELSE Inf
    ELSE Rat(sumGain, sumLoss)

\* rsi = 100 - (100 / (1 + rs))
RsiOf(rs) ==
    IF rs.k = "nan" THEN NaN
    ELSE IF rs.k = "inf" THEN Rat(100, 1)
    ELSE Rat(100 * rs.n, rs.n + rs.d)

RsiAt(prices, i, w) ==
    RsiOf(RelativeStrength(SumGain(prices, RollingWindow(i, w)),
                           SumLoss(prices, RollingWindow(i, w))))

\* calculate_rsi(prices, window)
calculate_rsi(prices, window) ==
    IF Len(prices) < window
    THEN [i \in 1..Len(prices) |-> NaN]
    ELSE [i \in 1..Len(prices) |-> RsiAt(prices, i, window)]

\* [np.nan] * len(prices): the answer of an indicator to a too short series
NanList_AtLeastOne(n) == [i \in 1..(IF n < 1 THEN 1 ELSE n) |-> NaN]
NanList(n) == [i \in 1..n |-> NaN]

----------------------------------------------------------------------------
(* Exact arithmetic on the floats that are numbers *)

Abs(a) == IF a < 0 THEN -a ELSE a

RECURSIVE Gcd(_, _)
Gcd(a, b) == IF b = 0 THEN a ELSE Gcd(b, a % b)

Lcm(a, b) == (a \div Gcd(a, b)) * b

\* the rational n / d in lowest terms (d > 0)
Norm(n, d) == Rat(n \div Gcd(Abs(n), d), d \div Gcd(Abs(n), d))

\* x + y and x - y; an operation on nan is nan
Add(x, y) ==
    IF x.k # "num" \/ y.k # "num" THEN NaN
    ELSE Norm(x.n * (Lcm(x.d, y.d) \div x.d) + y.n * (Lcm(x.d, y.d) \div y.d),
              Lcm(x.d, y.d))

Sub(x, y) ==
    IF x.k # "num" \/ y.k # "num" THEN NaN
    ELSE Norm(x.n * (Lcm(x.d, y.d) \div x.d) - y.n * (Lcm(x.d, y.d) \div y.d),
              Lcm(x.d, y.d))

\* (a / b) * x for positive integers a and b
Times(a, b, x) == IF x.k # "num" THEN NaN ELSE Norm(a * x.n, b * x.d)

\* x > y for two floats (False when either is nan)
GreaterThan(x, y) ==
    /\ x.k = "num"
    /\ y.k = "num"
    /\ x.n * (Lcm(x.d, y.d) \div x.d) > y.n * (Lcm(x.d, y.d) \div y.d)

\* pd.Series(prices): the integer prices as floats
Series(prices) == [i \in 1..Len(prices) |-> Rat(prices[i], 1)]

----------------------------------------------------------------------------
(* calculate_macd *)

MacdFast == 12
MacdSlow == 26
MacdSignal == 9

\* xs.ewm(span=span, adjust=False).mean(), its first n entries:
\* y[1] = x[1] and y[i] = alpha * x[i] + (1 - alpha) * y[i-1], alpha = 2 / (span + 1)
RECURSIVE Ewm(_, _, _)
Ewm(xs, span, n) ==
    IF n = 0 THEN <<>>
    ELSE IF n = 1 THEN <<xs[1]>>
    ELSE LET prev == Ewm(xs, span, n - 1)
         IN  Append(prev, Add(Times(2, span + 1, xs[n]),
                              Times(span - 1, span + 1, prev[n - 1])))

\* the guard of line 34
TooShortForMacd_Through(prices, slow_period) == Len(prices) <= slow_period
TooShortForMacd(prices, slow_period) == Len(prices) < slow_period

\* calculate_macd(prices, fast_period, slow_period, signal_period)
calculate_macd(prices, fast_period, slow_period, signal_period) ==
    IF TooShortForMacd(prices, slow_period)
    THEN [macd |-> NanList(Len(prices)),
          signal |-> NanList(Len(prices)),
          hist |-> NanList(Len(prices))]
    ELSE LET prices_series == Series(prices)
             ema_fast == Ewm(prices_series, fast_period, Len(prices))
             ema_slow == Ewm(prices_series, slow_period, Len(prices))
             macd == [i \in 1..Len(prices) |-> Sub(ema_fast[i], ema_slow[i])]
             signal == Ewm(macd, signal_period, Len(prices))
             hist == [i \in 1..Len(prices) |-> Sub(macd[i], signal[i])]
         IN  [macd |-> macd, signal |-> signal, hist |-> hist]

----------------------------------------------------------------------------
(* calculate_bollinger_bands.  A band value is mid + w * sqrt(var), kept as  *)
(* [k = "band", n, d, vn, vd, w] with mid = n / d and var = vn / vd, so that *)
(* the square root is never rounded.                                         *)

BollingerWindow == 20
NumStd == 2

\* the sum of the prices and of their squares over a set of positions
RECURSIVE SumOf(_, _)
SumOf(prices, S) ==
    IF S = {} THEN 0
    ELSE LET j == CHOOSE x \in S : TRUE
         IN  prices[j] + SumOf(prices, S \ {j})

RECURSIVE SumSq(_, _)
SumSq(prices, S) ==
    IF S = {} THEN 0
    ELSE LET j == CHOOSE x \in S : TRUE
         IN  prices[j] * prices[j] + SumSq(prices, S \ {j})

\* prices_series.rolling(window=w).mean() at position i
RollingMean(prices, i, w) ==
    IF i < w THEN NaN ELSE Norm(SumOf(prices, (i - w + 1)..i), w)

\* the square of prices_series.rolling(window=w).std() at position i
\* (sample variance, one degree of freedom removed)
RollingVar(prices, i, w) ==
    IF i < w \/ w < 2 THEN NaN
    ELSE Norm(w * SumSq(prices, (i - w + 1)..i)
                - SumOf(prices, (i - w + 1)..i) * SumOf(prices, (i - w + 1)..i),
              w * (w - 1))

\* middle_band + (std * w)
Band(mid, var, w) ==
    IF mid.k # "num" \/ var.k # "num" THEN NaN
    ELSE [k |-> "band", n |-> mid.n, d |-> mid.d, vn |-> var.n, vd |-> var.d, w |-> w]

\* the guard of line 61
TooShortForBands(prices, window) == Len(prices) < window

\* calculate_bollinger_bands(prices, window, num_std)
calculate_bollinger_bands(prices, window, num_std) ==
    IF TooShortForBands(prices, window)
    THEN [middle |-> NanList(Len(prices)),
          upper |-> NanList(Len(prices)),
          lower |-> NanList(Len(prices))]
    ELSE [middle |-> [i \in 1..Len(prices) |-> RollingMean(prices, i, window)],
          upper |-> [i \in 1..Len(prices) |->
                        Band(RollingMean(prices, i, window),
                             RollingVar(prices, i, window), num_std)],
          lower |-> [i \in 1..Len(prices) |->
                        Band(RollingMean(prices, i, window),
                             RollingVar(prices, i, window), -num_std)]]

\* p >= b and p <= b for an integer price p and a band value b
AtOrAbove(p, b) ==
    LET a == p * b.d - b.n
        lhs == a * a * b.vd
        rhs == b.w * b.w * b.vn * b.d * b.d
    IN  IF b.w >= 0 THEN a >= 0 /\ lhs >= rhs ELSE a >= 0 \/ lhs <= rhs

AtOrBelow(p, b) ==
    LET a == b.n - p * b.d
        lhs == a * a * b.vd
        rhs == b.w * b.w * b.vn * b.d * b.d
    IN  IF b.w <= 0 THEN a >= 0 /\ lhs >= rhs ELSE a >= 0 \/ lhs <= rhs

\* b = 0.0 for a band value b
BandIsZero(b) ==
    /\ (b.w >= 0 => b.n <= 0)
    /\ (b.w <= 0 => b.n >= 0)
    /\ b.n * b.n * b.vd = b.w * b.w * b.vn * b.d * b.d

\* x[-1] if x and not np.isnan(x[-1]) else None
NoneFloat == [null |-> TRUE, v |-> NaN]
LatestOf(x) ==
    IF x # <<>> /\ x[Len(x)].k # "nan"
    THEN [null |-> FALSE, v |-> x[Len(x)]]
    ELSE NoneFloat

\* the truth value of an Optional[float] in "if x:"
Truthy(x) == ~x.null /\ ~(x.v.k = "num" /\ x.v.n = 0)

\* lines 104-111: the RSI trend label
RsiTrend(latest_rsi) ==
    IF Truthy(latest_rsi)
    THEN IF Greater(latest_rsi.v, 70) THEN "Overbought"
         ELSE IF Less(latest_rsi.v, 30) THEN "Oversold"
         ELSE "Neutral"
    ELSE "None"

\* lines 113-118: the MACD trend label
MacdTrend(latest_macd, latest_macd_signal) ==
    IF Truthy(latest_macd) /\ Truthy(latest_macd_signal)
    THEN IF GreaterThan(latest_macd.v, latest_macd_signal.v) THEN "Bullish"
         ELSE "Bearish"
    ELSE "None"

\* the truth value of an Optional band value and of the quote's current price
BandTruthy(x) == ~x.null /\ ~BandIsZero(x.v)
PriceTruthy(p) == ~p.null /\ p.v # 0

\* lines 120-128: the Bollinger trend label
BollingerTrend(current_price, latest_bollinger_upper, latest_bollinger_lower) ==
    IF /\ PriceTruthy(current_price)
       /\ BandTruthy(latest_bollinger_upper)
       /\ BandTruthy(latest_bollinger_lower)
    THEN IF AtOrAbove(current_price.v, latest_bollinger_upper.v) THEN "AtUpperBand"
         ELSE IF AtOrBelow(current_price.v, latest_bollinger_lower.v) THEN "AtLowerBand"
         ELSE "InsideBands"
    ELSE "None"

NoMacd == [macd |-> <<>>, signal |-> <<>>, hist |-> <<>>]
NoBands == [middle |-> <<>>, upper |-> <<>>, lower |-> <<>>]

NoIndicators == [raised |-> "none", latest_rsi |-> NoneFloat, rsi_trend |-> "None",
                 raw_rsi |-> <<>>, current_price |-> NullNum,
                 latest_macd |-> NoneFloat, latest_macd_signal |-> NoneFloat,
                 latest_bollinger_upper |-> NoneFloat,
                 latest_bollinger_lower |-> NoneFloat,
                 macd_trend |-> "None", bollinger_trend |-> "None",
                 raw_macd |-> NoMacd, raw_bollinger |-> NoBands]

\* ohlc_data.get("c", []) and stock_data.get("current_price")
Closes(ohlc_data) == IF "c" \in DOMAIN ohlc_data THEN ohlc_data.c ELSE ListOf(<<>>)
CurrentPrice(stock_data) ==
    IF "current_price" \in DOMAIN stock_data THEN stock_data.current_price ELSE NullNum

\* calculate_technical_indicators(stock_data, ohlc_data); len(None) raises
\* TypeError in calculate_rsi
calculate_technical_indicators(stock_data, ohlc_data) ==
    IF Closes(ohlc_data).null
    THEN [NoIndicators EXCEPT !.raised = "TypeError"]
    ELSE LET close_prices == Closes(ohlc_data).seq
             rsi == calculate_rsi(close_prices, RsiWindow)
             macd == calculate_macd(close_prices, MacdFast, MacdSlow, MacdSignal)
             bollinger == calculate_bollinger_bands(close_prices, BollingerWindow, NumStd)
             latest_rsi == LatestOf(rsi)
             latest_macd == LatestOf(macd.macd)
             latest_macd_signal == LatestOf(macd.signal)
             latest_bollinger_upper == LatestOf(bollinger.upper)
             latest_bollinger_lower == LatestOf(bollinger.lower)
             current_price == CurrentPrice(stock_data)
         IN  [raised |-> "no",
              latest_rsi |-> latest_rsi,
              rsi_trend |-> RsiTrend(latest_rsi),
              raw_rsi |-> rsi,
              current_price |-> current_price,
              latest_macd |-> latest_macd,
              latest_macd_signal |-> latest_macd_signal,
              latest_bollinger_upper |-> latest_bollinger_upper,
              latest_bollinger_lower |-> latest_bollinger_lower,
              macd_trend |-> MacdTrend(latest_macd, latest_macd_signal),
              bollinger_trend |-> BollingerTrend(current_price, latest_bollinger_upper,
                                                 latest_bollinger_lower),
              raw_macd |-> macd,
              raw_bollinger |-> bollinger]

----------------------------------------------------------------------------
(* agents/analysts/tech_analyst.py: get_technical_analysis *)

NoTaOut == [kind |-> "none", source |-> ""]

FinhubRaised(l) == \E i \in 1..Len(l) : l[i].vendor = "finhub" /\ ~l[i].ok

\* the call, up to the first vendor attempt of route_to_vendor("get_stock_data", ...)
TAStart ==
    /\ ta_pc \notin {"stock", "ohlc"}
    /\ pc # "loop"
    /\ nCalls < MaxCalls
    /\ nCalls' = nCalls + 1
    /\ Enter("get_stock_data")
    /\ ta_pc' = "stock"
    /\ ta_stock' = NoResult
    /\ ta_out' = NoTaOut
    /\ ta_finhubFailed' = FALSE
    /\ UNCHANGED <<cfgVars, indVars, vendorVars, fundVars>>

\* route_to_vendor("get_stock_data", ...) raised: the exception leaves the analyst
TAStockRaised ==
    /\ ta_pc = "stock"
    /\ pc = "raised"
    /\ ta_pc' = "raised"
    /\ ta_out' = [kind |-> outcome.kind, source |-> ""]
    /\ ta_finhubFailed' = FinhubRaised(log)
    /\ UNCHANGED <<ta_stock, cfgVars, routeVars, nCalls, indVars, vendorVars, fundVars>>

\* stock_data is bound; route_to_vendor("get_ohlc_data", ...) starts
TAStockReturned ==
    /\ ta_pc = "stock"
    /\ pc = "returned"
    /\ ta_stock' = outcome.result
    /\ ta_finhubFailed' = FinhubRaised(log)
    /\ Enter("get_ohlc_data")
    /\ ta_pc' = "ohlc"
    /\ UNCHANGED <<ta_out, cfgVars, nCalls, indVars, vendorVars, fundVars>>

\* route_to_vendor("get_ohlc_data", ...) raised
TAOhlcRaised ==
    /\ ta_pc = "ohlc"
    /\ pc = "raised"
    /\ ta_pc' = "raised"
    /\ ta_out' = [kind |-> outcome.kind, source |-> ""]
    /\ ta_finhubFailed' = (ta_finhubFailed \/ FinhubRaised(log))
    /\ UNCHANGED <<ta_stock, cfgVars, routeVars, nCalls, indVars, vendorVars, fundVars>>

\* ohlc_data is bound; calculate_technical_indicators raises
TAIndicatorsRaise ==
    /\ ta_pc = "ohlc"
    /\ pc = "returned"
    /\ calculate_technical_indicators(ta_stock, outcome.result).raised # "no"
    /\ ta_pc' = "raised"
    /\ ta_out' = [kind |-> calculate_technical_indicators(ta_stock, outcome.result).raised,
                  source |-> ""]
    /\ ta_finhubFailed' = (ta_finhubFailed \/ FinhubRaised(log))
    /\ UNCHANGED <<ta_stock, cfgVars, routeVars, nCalls, indVars, vendorVars, fundVars>>

\* indicators computed, llm.invoke(prompt) answers: final_result["source"] = stock_data["source"]
TAReport ==
    /\ ta_pc = "ohlc"
    /\ pc = "returned"
    /\ calculate_technical_indicators(ta_stock, outcome.result).raised = "no"
    /\ ta_pc' = "done"
    /\ ta_out' = [kind |-> "return", source |-> ta_stock.source]
    /\ ta_finhubFailed' = (ta_finhubFailed \/ FinhubRaised(log))
    /\ UNCHANGED <<ta_stock, cfgVars, routeVars, nCalls, indVars, vendorVars, fundVars>>

\* indicators computed, llm.invoke(prompt) raises
TAReportFails ==
    /\ ta_pc = "ohlc"
    /\ pc = "returned"
    /\ calculate_technical_indicators(ta_stock, outcome.result).raised = "no"
    /\ ta_pc' = "raised"
    /\ ta_out' = [kind |-> "LLMError", source |-> ""]
    /\ ta_finhubFailed' = (ta_finhubFailed \/ FinhubRaised(log))
    /\ UNCHANGED <<ta_stock, cfgVars, routeVars, nCalls, indVars, vendorVars, fundVars>>

----------------------------------------------------------------------------
(* Inputs of the indicator engine *)

MaxBars == 16

\* a close series of up + flat + down + 1 bars: `up' rises of 1, `flat' equal
\* closes and `down' falls of 1, rising first or falling first
Walk(up, flat, down, risingFirst) ==
    [i \in 1..(up + flat + down + 1) |->
        LET first == IF risingFirst THEN up ELSE down
            last == IF risingFirst THEN down ELSE up
            a == IF i - 1 < first THEN i - 1 ELSE first
            b == IF i - 1 - first - flat > 0 THEN i - 1 - first - flat ELSE 0
        IN  IF risingFirst THEN 20 + a - b ELSE 20 - a + b]

CloseSeries ==
    {<<>>} \cup
    {Walk(up, flat, down, rf) :
        up \in 0..(MaxBars - 1), flat \in 0..(MaxBars - 1), down \in 0..(MaxBars - 1),
        rf \in BOOLEAN}

MaxLongBars == 27

\* a close series of len bars that stays at 20 up to its last two bars, which
\* move by d1 and then by d2: the exponential averages of such a series are
\* rationals with small numerators and denominators
LateMove(len, d1, d2) ==
    [i \in 1..len |->
        20 + (IF i >= len - 1 /\ len > 1 THEN d1 ELSE 0) + (IF i = len THEN d2 ELSE 0)]

LongSeries ==
    {LateMove(len, d1, d2) : len \in 1..MaxLongBars, d1 \in {-1, 0, 1}, d2 \in {-1, 0, 1}}

\* the candle series: "c" null (a Finhub no_data answer), absent, or a list
OhlcInputs ==
    {[source |-> "mock", current_price |-> NullNum, c |-> cl] :
        cl \in {NullSeq} \cup {ListOf(x) : x \in {y \in CloseSeries : Len(y) <= MaxBars}}
                         \cup {ListOf(x) : x \in LongSeries}}
    \cup {[source |-> "mock", current_price |-> NullNum]}

\* the quote: current_price a number, null or absent
QuoteInputs ==
    {[source |-> "mock", current_price |-> p, c |-> NullSeq] : p \in {NullNum, Num(128), Num(20), Num(3)}}
    \cup {[source |-> "mock", c |-> NullSeq]}

\* indicators = calculate_technical_indicators(stock_data, ohlc_data)
Compute ==
    /\ ind.raised = "none"
    /\ ind' = calculate_technical_indicators(stock_in, ohlc_in)
    /\ UNCHANGED <<stock_in, ohlc_in, cfgVars, routeVars, nCalls, taVars, vendorVars, fundVars>>

----------------------------------------------------------------------------
(* dataflows/finhub.py and dataflows/y_finance.py: get_ohlc_data.  A request *)
(* is [count, from, to, lookback]: what the implementation asks the service  *)
(* for; `rows' is the number of candles the service holds for that request.  *)

MaxCount == 3
MaxRows == 4

\* the truth value of an Optional[int] in "if start and end:"
IntTruthy(x) == ~x.null /\ x.v # 0

NoRequest == [count |-> NullNum, from |-> NullNum, to |-> NullNum, lookback |-> 0]
NoResponse == [source |-> "", raised |-> FALSE, request |-> NoRequest, bars |-> 0]

\* get_finhub_ohlc_data: the query parameters
FinhubParams(count, start, end) ==
    IF IntTruthy(start) /\ IntTruthy(end)
    THEN [count |-> NullNum, from |-> start, to |-> end, lookback |-> 0]
    ELSE [count |-> Num(count), from |-> NullNum, to |-> NullNum, lookback |-> 0]

\* _calc_start_end: mult = max(count, 1) * 2 intervals back from utcnow()
Lookback(count) == (IF count > 1 THEN count ELSE 1) * 2

\* get_yfinance_ohlc_data: the window handed to yf.download
YfinanceWindow(count, start, end) ==
    IF IntTruthy(start) /\ IntTruthy(end)
    THEN [count |-> NullNum, from |-> start, to |-> end, lookback |-> 0]
    ELSE [count |-> NullNum, from |-> NullNum, to |-> NullNum, lookback |-> Lookback(count)]

\* the number of rows of data.tail(count) for a frame of n rows
TailRows(n, count) ==
    IF count >= 0
    THEN IF n < count THEN n ELSE count
    ELSE IF n + count > 0 THEN n + count ELSE 0

\* the arguments of get_ohlc_data and the candles the service holds
OhlcRequests ==
    [count : 0..MaxCount,
     start : {NullNum, Num(0), Num(100)},
     end : {NullNum, Num(0), Num(200)},
     rows : 0..MaxRows]

\* get_finhub_ohlc_data(stock_code, resolution, count, start, end)
GetFinhubOhlc ==
    /\ ohlc_resp.source = ""
    /\ \E fails \in BOOLEAN :
         ohlc_resp' = [source |-> "finhub",
                       raised |-> fails,
                       request |-> FinhubParams(ohlc_req.count, ohlc_req.start, ohlc_req.end),
                       bars |-> IF fails THEN 0 ELSE ohlc_req.rows]
    /\ UNCHANGED <<ohlc_req, cfgVars, routeVars, nCalls, taVars, indVars, fundVars>>

\* get_yfinance_ohlc_data(stock_code, resolution, count, start, end)
GetYfinanceOhlc ==
    /\ ohlc_resp.source = ""
    /\ ohlc_resp' = [source |-> "yfinance",
                     raised |-> (ohlc_req.rows = 0),
                     request |-> YfinanceWindow(ohlc_req.count, ohlc_req.start, ohlc_req.end),
                     bars |-> TailRows(ohlc_req.rows, ohlc_req.count)]
    /\ UNCHANGED <<ohlc_req, cfgVars, routeVars, nCalls, taVars, indVars, fundVars>>

----------------------------------------------------------------------------
(* agents/analysts/fundament_analyst.py: calculate_fundamental_indicators *)

\* d.get(key, 0)
GetOrZero(d, key) == IF key \in DOMAIN d THEN d[key] ELSE 0

RevenueGrowthTrend(revenue_growth) ==
    IF revenue_growth > 20 THEN "FastGrowth"
    ELSE IF 5 <= revenue_growth /\ revenue_growth <= 20 THEN "SteadyGrowth"
    ELSE IF -5 <= revenue_growth /\ revenue_growth < 5 THEN "Stagnant"
    ELSE "NegativeGrowth"

RoeTrend(roe) ==
    IF roe > 15 THEN "Excellent"
    ELSE IF 8 <= roe /\ roe <= 15 THEN "Good"
    ELSE "Poor"

PeTrend(pe_ratio) ==
    IF pe_ratio < 15 THEN "Undervalued"
    ELSE IF 15 <= pe_ratio /\ pe_ratio <= 30 THEN "Reasonable"
    ELSE "Overvalued"

NoFundamentals ==
    [raised |-> "none",
     latest_values |-> [revenue |-> 0, net_profit |-> 0, revenue_growth |-> 0,
                        profit_growth |-> 0, roe |-> 0, pe_ratio |-> 0,
                        debt_to_equity |-> 0],
     trends |-> [revenue_growth |-> "", roe |-> "", pe_ratio |-> ""]]

\* calculate_fundamental_indicators(financial_data, market_data)
calculate_fundamental_indicators(financial_data, market_data) ==
    [raised |-> "no",
     latest_values |->
        [revenue |-> GetOrZero(financial_data, "total_revenue"),
         net_profit |-> GetOrZero(financial_data, "net_profit"),
         revenue_growth |-> GetOrZero(financial_data, "revenue_growth_yoy"),
         profit_growth |-> GetOrZero(financial_data, "profit_growth_yoy"),
         roe |-> GetOrZero(financial_data, "roe"),
         pe_ratio |-> GetOrZero(market_data, "pe_ratio"),
         debt_to_equity |-> GetOrZero(financial_data, "debt_to_equity")],
     trends |->
        [revenue_growth |-> RevenueGrowthTrend(GetOrZero(financial_data, "revenue_growth_yoy")),
         roe |-> RoeTrend(GetOrZero(financial_data, "roe")),
         pe_ratio |-> PeTrend(GetOrZero(market_data, "pe_ratio"))]]

\* the statements and the market data the function is applied to (percentages
\* and multiples as whole numbers, around every threshold of the labels)
FinancialInputs ==
    {[total_revenue |-> 380, net_profit |-> 99, revenue_growth_yoy |-> g,
      profit_growth_yoy |-> 8, roe |-> r, debt_to_equity |-> d] :
        g \in {-6, -5, 4, 5, 12, 20, 21}, r \in {7, 8, 15, 16, 18}, d \in {39, 40, 55, 60, 61}}
    \cup {[total_revenue |-> 380]}

MarketInputs ==
    {[market_cap |-> 2900, pe_ratio |-> p] : p \in {14, 15, 29, 30, 31}}
    \cup {[market_cap |-> 2900]}

\* indicators = calculate_fundamental_indicators(financial_data, market_data)
ComputeFundamentals ==
    /\ fund.raised = "none"
    /\ fund' = calculate_fundamental_indicators(fund_in.financial_data, fund_in.market_data)
    /\ UNCHANGED <<fund_in, cfgVars, routeVars, nCalls, taVars, indVars, vendorVars>>

----------------------------------------------------------------------------
(* Specifications *)

InitProgram ==
    /\ _CONFIG = DEFAULT_CONFIG
    /\ heap = DefaultHeap
    /\ FINHUB_API_KEY = DEFAULT_CONFIG["FINHUB_API_KEY"].val
    /\ held = EmptyDict
    /\ overlays = <<>>
    /\ nMut = 0
    /\ nCalls = 0
    /\ pc = "idle"
    /\ method_name = ""
    /\ vendor_priority = <<>>
    /\ idx = 0
    /\ last_exception = NoError
    /\ outcome = NoOutcome
    /\ log = <<>>
    /\ configReads = 0
    /\ readView = EmptyDict
    /\ ta_pc = "idle"
    /\ ta_stock = NoResult
    /\ ta_out = NoTaOut
    /\ ta_finhubFailed = FALSE
    /\ ind = NoIndicators
    /\ ohlc_resp = NoResponse
    /\ fund = NoFundamentals

\* the process after its imports: routing and analysis under set_config calls
NoOhlcRequest == [count |-> 0, start |-> NullNum, end |-> NullNum, rows |-> 0]
NoFundInputs == [financial_data |-> [total_revenue |-> 0], market_data |-> [market_cap |-> 0]]

Init ==
    /\ InitProgram
    /\ stock_in = NoResult
    /\ ohlc_in = NoResult
    /\ ohlc_req = NoOhlcRequest
    /\ fund_in = NoFundInputs

Next ==
    \/ SetConfigLiteral
    \/ RouteCall
    \/ RouteSkip
    \/ RouteInvokeReturn
    \/ RouteInvokeRaise
    \/ TAStart
    \/ TAStockRaised
    \/ TAStockReturned
    \/ TAOhlcRaised
    \/ TAIndicatorsRaise
    \/ TAReport
    \/ TAReportFails

Spec == Init /\ [][Next]_vars

\* the configuration store and the holders of its get_config() results
NextConfig ==
    \/ SetConfigLiteral
    \/ SetConfigHeld
    \/ GetConfig
    \/ CallerSetTop
    \/ CallerSetNested

SpecConfig == Init /\ [][NextConfig]_vars

\* the indicator engine applied to one quote and one candle series
InitInd ==
    /\ InitProgram
    /\ stock_in \in QuoteInputs
    /\ ohlc_in \in OhlcInputs
    /\ ohlc_req = NoOhlcRequest
    /\ fund_in = NoFundInputs

NextInd == Compute

SpecInd == InitInd /\ [][NextInd]_vars

\* one get_ohlc_data request served by one vendor implementation
InitOhlc ==
    /\ InitProgram
    /\ stock_in = NoResult
    /\ ohlc_in = NoResult
    /\ ohlc_req \in OhlcRequests
    /\ fund_in = NoFundInputs

NextOhlc == GetFinhubOhlc \/ GetYfinanceOhlc

SpecOhlc == InitOhlc /\ [][NextOhlc]_vars

\* the fundamental indicators of one pair of statements and market data
InitFund ==
    /\ InitProgram
    /\ stock_in = NoResult
    /\ ohlc_in = NoResult
    /\ ohlc_req = NoOhlcRequest
    /\ fund_in \in [financial_data : FinancialInputs, market_data : MarketInputs]

NextFund == ComputeFundamentals

SpecFund == InitFund /\ [][NextFund]_vars

----------------------------------------------------------------------------
(* Vocabulary of the properties *)

Finished == pc \in {"returned", "raised"}

\* the call passed the capability check and resolved a candidate order
Resolved == pc \in {"loop", "returned", "raised"} /\ outcome.kind \in {"none", "return", "RuntimeError"}

IsRegistered(tok) == Name(tok) \in VENDOR_METHODS[method_name]

\* the vendor names of a token list that have an implementation of method_name
Candidates(toks) ==
    LET regs == SelectSeq(toks, IsRegistered)
    IN  [i \in 1..Len(regs) |-> Name(regs[i])]

LogVendors == [i \in 1..Len(log) |-> log[i].vendor]

TwoVendors == {ab \in {"finhub", "yfinance"} \X {"finhub", "yfinance"} : ab[1] # ab[2]}

\* C1: with candidates [A, B], when A raises and B does not, the call returns
\* exactly the result B produced, the aggregate error is not raised, and B is
\* invoked exactly once.
C1_FallbackReturnsSecond ==
    \A ab \in TwoVendors :
        (/\ Finished
         /\ Resolved
         /\ Candidates(vendor_priority) = <<ab[1], ab[2]>>
         /\ log # <<>>
         /\ log[1].vendor = ab[1]
         /\ ~log[1].ok
         /\ ~\E i \in 1..Len(log) : log[i].vendor = ab[2] /\ ~log[i].ok)
        => /\ pc = "returned"
           /\ outcome.kind = "return"
           /\ Len(log) = 2
           /\ log[2].vendor = ab[2]
           /\ log[2].ok
           /\ outcome.result = log[2].result
           /\ outcome.result.source = ab[2]
           /\ Cardinality({i \in 1..Len(log) : log[i].vendor = ab[2]}) = 1

W_C1_FallbackReturnsSecond ==
    /\ pc = "returned"
    /\ Candidates(vendor_priority) = <<"finhub", "yfinance">>
    /\ Len(log) = 2
    /\ ~log[1].ok
    /\ outcome.result.source = "yfinance"

\* C2: a call for a capability that is not in VENDOR_METHODS ends with the
\* ValueError, no vendor implementation was invoked and get_config was not called.
C2_UnsupportedFailsFirst ==
    (pc # "idle" /\ method_name \notin DOMAIN VENDOR_METHODS)
    => /\ pc = "raised"
       /\ outcome.kind = "ValueError"
       /\ log = <<>>
       /\ configReads = 0

W_C2_UnsupportedFailsFirst ==
    /\ method_name = "get_news"
    /\ pc = "raised"
    /\ outcome.kind = "ValueError"
    /\ Len(overlays) > 0

\* C3: with candidates [A, B], when both raise, the call raises the aggregate
\* RuntimeError and its cause is the error B raised, not A's.
C3_AggregateChainsLast ==
    \A ab \in TwoVendors :
        (/\ Finished
         /\ Resolved
         /\ Candidates(vendor_priority) = <<ab[1], ab[2]>>
         /\ Len(log) = 2
         /\ log[1].vendor = ab[1] /\ ~log[1].ok
         /\ log[2].vendor = ab[2] /\ ~log[2].ok)
        => /\ pc = "raised"
           /\ outcome.kind = "RuntimeError"
           /\ outcome.cause = log[2].err
           /\ outcome.cause # log[1].err
           /\ outcome.cause.vendor = ab[2]

W_C3_AggregateChainsLast ==
    /\ pc = "raised"
    /\ outcome.kind = "RuntimeError"
    /\ Candidates(vendor_priority) = <<"yfinance", "finhub">>
    /\ Len(log) = 2
    /\ outcome.cause.vendor = "finhub"

\* the positions of vendor_priority the loop is done with
Examined ==
    IF pc = "loop" THEN idx - 1
    ELSE IF pc = "returned" THEN idx
    ELSE Len(vendor_priority)

\* C4: at every moment of a call the vendors invoked so far are exactly the
\* registered candidates among the positions the loop is done with, in priority
\* order; every invocation but the last one raised; and an invocation that
\* returned is the last one and has ended the call.
C4_StrictPriorityOrder ==
    Resolved =>
        /\ LogVendors = Candidates(SubSeq(vendor_priority, 1, Examined))
        /\ \A i \in 1..(Len(log) - 1) : ~log[i].ok
        /\ (log # <<>> /\ log[Len(log)].ok) <=> (pc = "returned")
        /\ pc = "loop" => idx \in 1..Len(vendor_priority)

W_C4_StrictPriorityOrder ==
    /\ pc = "returned"
    /\ Len(vendor_priority) = 3
    /\ idx = 3
    /\ Len(log) = 2
    /\ ~IsRegistered(vendor_priority[1])

\* C5: a call for any of the four capabilities of the capability surface is
\* never rejected with the unsupported-capability error.
C5_SurfaceSupported ==
    (pc # "idle" /\ method_name \in CapabilitySurface) => outcome.kind # "ValueError"

\* the view of the shared configuration and the orders the router derives from it
SharedView == DeepView(_CONFIG, heap)
SharedOrders == [m \in DOMAIN VENDOR_METHODS |-> get_vendor_priority(m, get_config, heap)]

\* C6: a step in which a caller mutates the value get_config returned changes
\* neither what get_config returns next nor the vendor order of a later call.
C6_CopyIsolatesCallers ==
    [][(nMut' = nMut + 1) => (SharedView' = SharedView /\ SharedOrders' = SharedOrders)]_vars

\* the value of key k in the most recent overlay that contains k, the default
\* value when no overlay contains it
RECURSIVE LastValue(_, _)
LastValue(k, n) ==
    IF n = 0 THEN DEFAULT_CONFIG[k]
    ELSE IF k \in DOMAIN overlays[n] THEN overlays[n][k]
    ELSE LastValue(k, n - 1)

EverSet == UNION {DOMAIN overlays[i] : i \in 1..Len(overlays)}

\* C7: after any sequence of set_config calls get_config returns, for every
\* top-level key, the value of the most recent overlay containing the key, or
\* the default value when no overlay contained it; and no key is ever removed.
C7_LaterOverlayWins ==
    /\ DOMAIN get_config = (DOMAIN DEFAULT_CONFIG) \cup EverSet
    /\ \A k \in (DOMAIN DEFAULT_CONFIG) \cup EverSet :
        /\ k \in DOMAIN get_config
        /\ get_config[k] = LastValue(k, Len(overlays))
        /\ DeepView(get_config, heap)[k].nested =
             (IF LastValue(k, Len(overlays)).ref # 0
              THEN heap[LastValue(k, Len(overlays)).ref] ELSE EmptyDict)

W_C7_LaterOverlayWins ==
    /\ Len(overlays) = 2
    /\ "FINHUB_API_KEY" \in DOMAIN overlays[1]
    /\ "FINHUB_API_KEY" \in DOMAIN overlays[2]
    /\ overlays[1]["FINHUB_API_KEY"] # overlays[2]["FINHUB_API_KEY"]
    /\ get_config["FINHUB_API_KEY"] = Scalar(InvalidKey)
    /\ "timeout" \notin EverSet
    /\ get_config["timeout"] = Scalar("10")

\* the comma-separated tokens of a priority text, trimmed, in the written order
CommaPositions(text) == {i \in 1..Len(text) : text[i] = ","}

\* position of the k-th comma; 0 before the first piece, Len + 1 after the last
KthComma(text, k) ==
    IF k = 0 THEN 0
    ELSE IF k > Cardinality(CommaPositions(text)) THEN Len(text) + 1
    ELSE CHOOSE i \in CommaPositions(text) :
            Cardinality({j \in CommaPositions(text) : j <= i}) = k

Trimmed(piece) ==
    LET solid == {i \in 1..Len(piece) : piece[i] # " "}
    IN  IF solid = {} THEN <<>>
        ELSE SubSeq(piece,
                    CHOOSE i \in solid : \A j \in solid : i <= j,
                    CHOOSE i \in solid : \A j \in solid : i >= j)

WrittenTokens(text) ==
    [k \in 1..(Cardinality(CommaPositions(text)) + 1) |->
        Trimmed(SubSeq(text, KthComma(text, k - 1) + 1, KthComma(text, k) - 1))]

OverrideRead ==
    /\ pc # "idle"
    /\ configReads = 1
    /\ method_name \in DOMAIN readView["tool_vendors"].nested

\* C8: when the configuration a call read has a tool_vendors entry for the
\* capability, the candidate order is the entry's comma-separated tokens,
\* trimmed, in the written order, whatever data_vendors says, and every vendor
\* the call invokes is one of those tokens.
C8_OverrideVerbatim ==
    OverrideRead =>
        LET text == readView["tool_vendors"].nested[method_name]
        IN  /\ vendor_priority = WrittenTokens(text)
            /\ \A i \in 1..Len(log) :
                \E j \in 1..Len(WrittenTokens(text)) :
                    WrittenTokens(text)[j] = <<log[i].vendor>>

W_C8_OverrideVerbatim ==
    /\ OverrideRead
    /\ readView["tool_vendors"].nested[method_name] =
         <<" ", "yfinance", " ", ",", " ", "finhub", " ">>
    /\ "technical_indicators" \in DOMAIN readView["data_vendors"].nested
    /\ readView["data_vendors"].nested["technical_indicators"] = <<"finhub", ",", "yfinance">>
    /\ LogVendors = <<"yfinance", "finhub">>
    /\ pc = "returned"

\* C9: an analysis in which a Finhub implementation raised (and neither the
\* indicator engine nor the LLM did) completes, with source "yfinance".
C9_AnalysisFallsBack ==
    (/\ ta_pc \in {"done", "raised"}
     /\ ta_finhubFailed
     /\ ta_out.kind \notin {"LLMError", "TypeError"})
    => (ta_pc = "done" /\ ta_out.source = "yfinance")

StrictlyIncreasing(x) == \A i \in 2..Len(x) : x[i] > x[i - 1]
StrictlyDecreasing(x) == \A i \in 2..Len(x) : x[i] < x[i - 1]

\* C10: whenever the latest RSI value v is defined the label is overbought for
\* v > 70, oversold for v < 30 and neutral otherwise; the label is null only
\* when v is undefined; a strictly increasing close series of at least 15 bars
\* is overbought and a strictly decreasing one oversold.
C10_RsiLabel ==
    ind.raised = "no" =>
        /\ ~ind.latest_rsi.null =>
             ind.rsi_trend = (IF Greater(ind.latest_rsi.v, 70) THEN "Overbought"
                              ELSE IF Less(ind.latest_rsi.v, 30) THEN "Oversold"
                              ELSE "Neutral")
        /\ ind.rsi_trend = "None" => ind.latest_rsi.null
        /\ (Len(Closes(ohlc_in).seq) >= 15 /\ StrictlyIncreasing(Closes(ohlc_in).seq))
             => ind.rsi_trend = "Overbought"
        /\ (Len(Closes(ohlc_in).seq) >= 15 /\ StrictlyDecreasing(Closes(ohlc_in).seq))
             => ind.rsi_trend = "Oversold"

\* upper > middle and lower < middle for a band value b built around the
\* middle value m (a comparison with nan is False)
BandAbove(b, m) ==
    b.k = "band" /\ m.k = "num" /\ b.n * m.d = m.n * b.d /\ b.w > 0 /\ b.vn > 0
BandBelow(b, m) ==
    b.k = "band" /\ m.k = "num" /\ b.n * m.d = m.n * b.d /\ b.w < 0 /\ b.vn > 0

\* C11: with the default periods, on a 15-value strictly increasing price
\* series the final macd value is defined (not nan), the final upper band is
\* above the final middle band and the final lower band is below it.
C11_FifteenRisingBars ==
    (/\ ind.raised = "no"
     /\ Len(Closes(ohlc_in).seq) = 15
     /\ StrictlyIncreasing(Closes(ohlc_in).seq))
    => /\ ind.raw_macd.macd[15].k # "nan"
       /\ BandAbove(ind.raw_bollinger.upper[15], ind.raw_bollinger.middle[15])
       /\ BandBelow(ind.raw_bollinger.lower[15], ind.raw_bollinger.middle[15])

IndicatorLatestNull ==
    /\ ind.latest_rsi.null
    /\ ind.latest_macd.null
    /\ ind.latest_macd_signal.null
    /\ ind.latest_bollinger_upper.null
    /\ ind.latest_bollinger_lower.null

TrendLabelsNull ==
    ind.rsi_trend = "None" /\ ind.macd_trend = "None" /\ ind.bollinger_trend = "None"

\* C13: for an OHLC value whose close sequence is empty,
\* calculate_technical_indicators returns without raising, with empty raw
\* sequences for RSI, MACD and Bollinger, null for every indicator latest
\* value and null for all three trend labels, whatever the quote contains.
C13_EmptyCloseSeries ==
    (ind.raised # "none" /\ Closes(ohlc_in) = ListOf(<<>>))
    => /\ ind.raised = "no"
       /\ ind.raw_rsi = <<>>
       /\ ind.raw_macd = [macd |-> <<>>, signal |-> <<>>, hist |-> <<>>]
       /\ ind.raw_bollinger = [middle |-> <<>>, upper |-> <<>>, lower |-> <<>>]
       /\ IndicatorLatestNull
       /\ TrendLabelsNull

W_C13_EmptyCloseSeries ==
    /\ ind.raised = "no"
    /\ "c" \in DOMAIN ohlc_in
    /\ ohlc_in.c = ListOf(<<>>)
    /\ ~CurrentPrice(stock_in).null
    /\ ind.current_price = Num(20)

\* C14: whenever both start and end are supplied to get_ohlc_data (any
\* epoch-second values, 0 included), every vendor requests the window
\* start..end, count does not enter the request, and count does not limit the
\* number of bars returned.
C14_StartEndOverCount ==
    (ohlc_resp.source # "" /\ ~ohlc_req.start.null /\ ~ohlc_req.end.null)
    => /\ ohlc_resp.request.from = ohlc_req.start
       /\ ohlc_resp.request.to = ohlc_req.end
       /\ ohlc_resp.request.count.null
       /\ ohlc_resp.request.lookback = 0
       /\ ~ohlc_resp.raised => ohlc_resp.bars = ohlc_req.rows

\* C15: calculate_fundamental_indicators returns a trend label for each of
\* revenue_growth, roe, pe_ratio and debt_to_equity: revenue growth in [5, 20]
\* is steady growth, ROE above 15 is excellent, a PE ratio in [15, 30] is
\* reasonable and a debt-to-equity value in the 40-60 range is reasonable
\* leverage.
C15_FundamentalTrendLabels ==
    fund.raised = "no" =>
        LET v == fund.latest_values
        IN  /\ {"revenue_growth", "roe", "pe_ratio", "debt_to_equity"} \subseteq DOMAIN fund.trends
            /\ (5 <= v.revenue_growth /\ v.revenue_growth <= 20)
                 => fund.trends.revenue_growth = "SteadyGrowth"
            /\ v.roe > 15 => fund.trends.roe = "Excellent"
            /\ (15 <= v.pe_ratio /\ v.pe_ratio <= 30) => fund.trends.pe_ratio = "Reasonable"
            /\ (40 <= v.debt_to_equity /\ v.debt_to_equity <= 60)
                 => fund.trends.debt_to_equity = "ReasonableLeverage"

\* C16: within one route_to_vendor call each vendor implementation is invoked
\* at most once, for every priority string configuration can hold (one that
\* names the same vendor more than once included).
C16_VendorInvokedOnce ==
    \A i, j \in 1..Len(log) : log[i].vendor = log[j].vendor => i = j

\* the call went through its whole priority list without invoking a vendor
ExhaustedUninvoked == Finished /\ Resolved /\ log = <<>>

\* C17: when every candidate is exhausted without any vendor being invoked,
\* route_to_vendor raises the aggregate all-vendors-failed error and that
\* error carries a recorded vendor error as its cause.
C17_UninvokedCarriesCause ==
    ExhaustedUninvoked
    => (pc = "raised" /\ outcome.kind = "RuntimeError" /\ outcome.cause # NoError)

\* C17, amended: when every candidate is exhausted without any vendor being
\* invoked, route_to_vendor raises the aggregate all-vendors-failed error; no
\* vendor error was recorded, and the error carries no cause.
C17_UninvokedRaisesWithoutCause ==
    ExhaustedUninvoked
    => (/\ pc = "raised"
        /\ outcome.kind = "RuntimeError"
        /\ outcome.cause = NoError
        /\ last_exception = NoError)

W_C17_UninvokedRaisesWithoutCause ==
    /\ ExhaustedUninvoked
    /\ outcome.kind = "RuntimeError"
    /\ Len(vendor_priority) >= 1
    /\ idx = Len(vendor_priority) + 1

\* a step that starts a route_to_vendor call
CallStarts == pc # "loop" /\ routeVars' # routeVars

\* C18: route_to_vendor keeps no state between calls and leaves the
\* configuration unchanged: every call, whatever happened in the calls before
\* it, resolves the candidate order from the configuration as it is now and
\* starts at the first candidate with nothing recorded.
C18_NoStateBetweenCalls ==
    [][/\ (routeVars' # routeVars \/ taVars' # taVars) => UNCHANGED <<_CONFIG, heap>>
       /\ (CallStarts /\ pc' = "loop")
            => /\ vendor_priority' = get_vendor_priority(method_name', get_config, heap).list
               /\ idx' = 1
               /\ log' = <<>>
               /\ last_exception' = NoError
               /\ outcome' = NoOutcome]_vars

W_C18_NoStateBetweenCalls ==
    /\ nCalls = 2
    /\ ta_pc = "raised"
    /\ ta_finhubFailed
    /\ pc = "loop"
    /\ method_name = "get_stock_data"
    /\ idx = 1
    /\ log = <<>>
    /\ Name(vendor_priority[1]) = "finhub"

\* C19: calculate_technical_indicators never raises for the shape or length
\* of its input: for every OHLC value (close sequence missing, null, empty or
\* shorter than every indicator window) and every quote (current price present
\* or null) it returns a result whose unavailable values and labels are null.
C19_NeverRaisesForShape ==
    ind.raised # "none" =>
        LET n == Len(Closes(ohlc_in).seq)
        IN  /\ ind.raised = "no"
            /\ n < 14 => (ind.latest_rsi.null /\ ind.rsi_trend = "None")
            /\ n < 26 => (/\ ind.latest_macd.null
                          /\ ind.latest_macd_signal.null
                          /\ ind.macd_trend = "None")
            /\ n < 20 => (/\ ind.latest_bollinger_upper.null
                          /\ ind.latest_bollinger_lower.null
                          /\ ind.bollinger_trend = "None")
            /\ CurrentPrice(stock_in).null => ind.bollinger_trend = "None"

\* C20: whenever the latest macd and the latest signal value are both defined,
\* the MACD trend label is bullish crossover if macd > signal and bearish
\* crossover otherwise (equality included); the label is null only when one
\* of the two latest values is undefined.
C20_MacdLabel ==
    ind.raised = "no" =>
        /\ (~ind.latest_macd.null /\ ~ind.latest_macd_signal.null)
             => ind.macd_trend = (IF GreaterThan(ind.latest_macd.v, ind.latest_macd_signal.v)
                                  THEN "Bullish" ELSE "Bearish")
        /\ ind.macd_trend = "None"
             => (ind.latest_macd.null \/ ind.latest_macd_signal.null)

\* C21: calculate_rsi (window 14) returns a sequence of the input's length;
\* every entry is undefined when the input is shorter than the window, and
\* when the input has at least 14 values every entry, the leading ones
\* included, is defined, with RSI equal to 100 where the average loss is 0.
C21_RsiLengthAndDefinedness ==
    ind.raised = "no" =>
        LET prices == Closes(ohlc_in).seq
            n == Len(prices)
        IN  /\ Len(ind.raw_rsi) = n
            /\ n < 14 => \A i \in 1..n : ind.raw_rsi[i].k = "nan"
            /\ n >= 14 => \A i \in 1..n :
                   /\ ind.raw_rsi[i].k # "nan"
                   /\ SumLoss(prices, RollingWindow(i, 14)) = 0
                        => ind.raw_rsi[i] = Rat(100, 1)

\* the data_vendors value of the most recent overlay that supplied one names
\* only core_stock_apis
CoreOnlyOverlaid ==
    /\ "data_vendors" \in EverSet
    /\ DOMAIN heap[LastValue("data_vendors", Len(overlays)).ref] = {"core_stock_apis"}

\* the call in progress read a configuration whose data_vendors names only
\* core_stock_apis and that has no override for get_ohlc_data
ReadCoreOnly ==
    /\ Resolved
    /\ method_name = "get_ohlc_data"
    /\ DOMAIN readView["data_vendors"].nested = {"core_stock_apis"}
    /\ "get_ohlc_data" \notin DOMAIN readView["tool_vendors"].nested

\* C22: an overlay that supplies data_vendors replaces the whole mapping: after
\* set_config with a data_vendors value naming only core_stock_apis the
\* technical_indicators priority is gone, and route_to_vendor for get_ohlc_data
\* uses the default order finhub, yfinance, alpha_vantage, Finhub tried first.
C22_DataVendorsReplacedWhole ==
    /\ CoreOnlyOverlaid
         => /\ DOMAIN NestedOf(get_config, heap, "data_vendors") = {"core_stock_apis"}
            /\ "get_ohlc_data" \notin DOMAIN NestedOf(get_config, heap, "tool_vendors")
                 => get_vendor_priority("get_ohlc_data", get_config, heap).list
                      = <<<<"finhub">>, <<"yfinance">>, <<"alpha_vantage">>>>
    /\ ReadCoreOnly
         => /\ vendor_priority = <<<<"finhub">>, <<"yfinance">>, <<"alpha_vantage">>>>
            /\ log # <<>> => log[1].vendor = "finhub"

W_C22_DataVendorsReplacedWhole ==
    /\ CoreOnlyOverlaid
    /\ ReadCoreOnly
    /\ log # <<>>
    /\ log[1].vendor = "finhub"
    /\ ~log[1].ok
    /\ Len(log) = 2
    /\ log[2].vendor = "yfinance"

\* C23: route_to_vendor reads the configuration exactly once, before its first
\* vendor invocation: no step taken while a call is in flight, a set_config
\* included, changes the candidate order of that call, and every call that
\* starts afterwards resolves its order from the configuration as it then is.
C23_ConfigReadOncePerCall ==
    [][/\ pc = "loop"
            => /\ vendor_priority' = vendor_priority
               /\ configReads' = configReads
               /\ readView' = readView
       /\ (CallStarts /\ pc' = "loop")
            => /\ configReads' = 1
               /\ log' = <<>>
               /\ readView' = DeepView(get_config, heap)
               /\ vendor_priority' = get_vendor_priority(method_name', get_config, heap).list]_vars

\* a call in flight, one vendor tried, whose order is no longer the one the
\* configuration gives
W_C23_ConfigReadOncePerCall ==
    /\ pc = "loop"
    /\ configReads = 1
    /\ Len(log) = 1
    /\ readView # DeepView(get_config, heap)
    /\ get_vendor_priority(method_name, get_config, heap).list # vendor_priority

====
